---- MODULE Spec2Model ----
(***************************************************************************)
(* IntentFlow workflow validator (tools/validator/validate.py).            *)
(*                                                                         *)
(* A workflow document is modelled by the parts of its text the parser     *)
(* extracts: the H1 line, the Meta and Finalization sections and the       *)
(* "## Step N" blocks with their "###" subsections.  Text is a sequence    *)
(* of characters, so that strip(), lower(), int() and the                  *)
(* word-tag match are computed, not assumed.  Subsection bodies are either *)
(* absent or start with a non-blank line.                                  *)
(***************************************************************************)
EXTENDS Integers, Sequences, FiniteSets, TLC

\* ------------------------------------------------------------------ bounds
MaxSteps == 3
MaxNum == 4
MaxRuleSteps == 2
MaxLibrarySteps == 1
MaxRuns == 2

\* ------------------------------------------------------------ text helpers
None == <<>>
Some(x) == <<x>>

UpperLetters ==
  <<"A","B","C","D","E","F","G","H","I","J","K","L","M",
    "N","O","P","Q","R","S","T","U","V","W","X","Y","Z">>
LowerLetters ==
  <<"a","b","c","d","e","f","g","h","i","j","k","l","m",
    "n","o","p","q","r","s","t","u","v","w","x","y","z">>
Digits == <<"0","1","2","3","4","5","6","7","8","9">>

Range(s) == {s[i] : i \in DOMAIN s}

\* str.lower() on one character
LowerChar(c) ==
  IF c \in Range(UpperLetters)
  THEN LowerLetters[CHOOSE i \in DOMAIN UpperLetters : UpperLetters[i] = c]
  ELSE c

\* str.lower()
Lower(s) == [i \in DOMAIN s |-> LowerChar(s[i])]

\* the regex word-character class
IsWordChar(c) ==
  c \in Range(UpperLetters) \cup Range(LowerLetters) \cup Range(Digits) \cup {"_"}

RECURSIVE LStrip(_)
LStrip(s) == IF s # <<>> /\ Head(s) = " " THEN LStrip(Tail(s)) ELSE s

RECURSIVE RStrip(_)
RStrip(s) ==
  IF s # <<>> /\ s[Len(s)] = " " THEN RStrip(SubSeq(s, 1, Len(s) - 1)) ELSE s

\* str.strip()
Strip(s) == RStrip(LStrip(s))

\* BACKTICK and DQUOTE stand for the backtick and double-quote characters
BACKTICK == "BACKTICK"
DQUOTE == "DQUOTE"

IsQuote(c) == c \in {BACKTICK, DQUOTE}

RECURSIVE LStripQuotes(_)
LStripQuotes(s) ==
  IF s # <<>> /\ IsQuote(Head(s)) THEN LStripQuotes(Tail(s)) ELSE s

RECURSIVE RStripQuotes(_)
RStripQuotes(s) ==
  IF s # <<>> /\ IsQuote(s[Len(s)])
  THEN RStripQuotes(SubSeq(s, 1, Len(s) - 1)) ELSE s

\* str.strip() of backticks and double quotes
StripQuotes(s) == RStripQuotes(LStripQuotes(s))

\* int() of a digit-run match
RECURSIVE IntOf(_)
IntOf(ds) ==
  IF ds = <<>> THEN 0
  ELSE 10 * IntOf(SubSeq(ds, 1, Len(ds) - 1))
       + ((CHOOSE i \in DOMAIN Digits : Digits[i] = ds[Len(ds)]) - 1)

\* Python truthiness of an Optional[str] / list
Truthy(o) == o # None /\ o[1] # <<>>

RECURSIVE Insert(_, _)
Insert(x, s) ==
  IF s = <<>> THEN <<x>>
  ELSE IF x <= Head(s) THEN <<x>> \o s
  ELSE <<Head(s)>> \o Insert(x, Tail(s))

RECURSIVE Sorted(_)
Sorted(s) == IF s = <<>> THEN <<>> ELSE Insert(Head(s), Sorted(Tail(s)))

\* list(range(1, n + 1))
RangeList(n) == [i \in 1..n |-> i]

\* --------------------------------------------------------------- messages
Msg(kind, step, value, found, expected) ==
  [kind |-> kind, step |-> step, value |-> value,
   found |-> found, expected |-> expected]

DocMsg(kind) == Msg(kind, -1, <<>>, <<>>, <<>>)
StepMsg(kind, n) == Msg(kind, n, <<>>, <<>>, <<>>)

VALID_FLEXIBILITY_LEVELS ==
  << <<"s","t","r","i","c","t">>,
     <<"g","u","i","d","e","d">>,
     <<"a","u","t","o","n","o","m","o","u","s">> >>

\* ---------------------------------------------------------------- parsing
\* Step(number=number, title=title) with the dataclass defaults
NewStep(number) ==
  [number |-> number, task |-> None, save_as |-> None,
   success_criteria |-> <<>>,
   flexibility_level |-> <<"g","u","i","d","e","d">>]

\* the Flexibility heading pattern: the heading matches when it has no
\* bracket, or a bracket around one or more word characters
FlexMatches(h) ==
  \/ ~h.bracket
  \/ h.tag # <<>> /\ \A i \in DOMAIN h.tag : IsWordChar(h.tag[i])

\* optional quote, then one or more non-quote characters, on the first line
\* of the Save-as body
RECURSIVE TakeUnquoted(_)
TakeUnquoted(s) ==
  IF s = <<>> \/ IsQuote(Head(s)) THEN <<>>
  ELSE <<Head(s)>> \o TakeUnquoted(Tail(s))

SaveCapture(line) ==
  IF line # <<>> /\ IsQuote(Head(line)) THEN TakeUnquoted(Tail(line))
  ELSE TakeUnquoted(line)

\* bullet lines of a Success-criteria body
IsBullet(line) == Strip(line) # <<>> /\ Head(Strip(line)) \in {"-", "*"}

Bullets(lines) == SelectSeq(lines, IsBullet)

parse_step(number, block) ==
  LET s0 == NewStep(number)
      s1 == IF block.task # None
            THEN [s0 EXCEPT !.task = Some(Strip(block.task[1]))] ELSE s0
      s2 == IF block.save # None /\ SaveCapture(block.save[1]) # <<>>
            THEN [s1 EXCEPT !.save_as =
                    Some(StripQuotes(Strip(SaveCapture(block.save[1]))))]
            ELSE s1
      s3 == IF block.criteria # None
            THEN [s2 EXCEPT !.success_criteria = Bullets(block.criteria[1])]
            ELSE s2
      s4 == IF block.flex # None /\ FlexMatches(block.flex[1])
               /\ block.flex[1].bracket
            THEN [s3 EXCEPT !.flexibility_level = Lower(block.flex[1].tag)]
            ELSE s3
  IN s4

\* meta[key.strip().lower()] = value.strip() for every line with a colon
parse_meta(lines) ==
  {Lower(Strip(lines[i].key)) : i \in {j \in DOMAIN lines : lines[j].colon}}

\* WorkflowValidator.__init__
New(content) ==
  [content |-> content, errors |-> <<>>, warnings |-> <<>>,
   title |-> None, meta |-> {}, steps |-> <<>>, finalization |-> None]

parse_document(v) ==
  LET d == v.content
      parsed == [i \in DOMAIN d.steps |->
                   parse_step(IntOf(d.steps[i].numeral), d.steps[i])]
  IN [v EXCEPT
        !.title = IF d.h1 # None THEN Some(Strip(d.h1[1].text)) ELSE @,
        !.meta = IF d.meta # None THEN parse_meta(d.meta[1]) ELSE @,
        !.steps = @ \o parsed,
        !.finalization = IF d.final # None THEN Some(Strip(d.final[1])) ELSE @]

\* ------------------------------------------------------------- rule engine
validate_structure(v) ==
  LET e1 == IF ~Truthy(v.title)
            THEN Append(v.errors, DocMsg("MissingTitle")) ELSE v.errors
      e2 == IF v.steps = <<>> THEN Append(e1, DocMsg("NoSteps")) ELSE e1
      w1 == IF v.meta = {}
            THEN Append(v.warnings, DocMsg("NoMeta")) ELSE v.warnings
      w2 == IF ~Truthy(v.finalization)
            THEN Append(w1, DocMsg("NoFinalization")) ELSE w1
  IN [v EXCEPT !.errors = e2, !.warnings = w2]

IsValidLevel(level) == level \in Range(VALID_FLEXIBILITY_LEVELS)

\* variant: the comparison includes the step count itself
NeedsSaveAs_Inclusive(step, count) ==
  ~Truthy(step.save_as) /\ step.number <= count

NeedsSaveAs(step, count) == ~Truthy(step.save_as) /\ step.number < count

\* the body of the for loop of _validate_steps, for one step
validate_one_step(v, step) ==
  LET n == step.number
      e1 == IF ~Truthy(step.task)
            THEN Append(v.errors, StepMsg("MissingTask", n)) ELSE v.errors
      w1 == IF Truthy(step.task) /\ Len(step.task[1]) < 10
            THEN Append(v.warnings, StepMsg("TaskBrief", n)) ELSE v.warnings
      e2 == IF ~IsValidLevel(step.flexibility_level)
            THEN Append(e1, Msg("InvalidFlexibility", n,
                                step.flexibility_level, <<>>, <<>>))
            ELSE e1
      w2 == IF NeedsSaveAs(step, Len(v.steps))
            THEN Append(w1, StepMsg("NoSaveAs", n)) ELSE w1
      w3 == IF step.success_criteria = <<>>
            THEN Append(w2, StepMsg("NoCriteria", n)) ELSE w2
      w4 == IF Truthy(step.save_as) /\ Head(step.save_as[1]) # "/"
            THEN Append(w3, StepMsg("SaveAsNotAbsolute", n)) ELSE w3
  IN [v EXCEPT !.errors = e2, !.warnings = w4]

RECURSIVE StepLoop(_, _)
StepLoop(v, i) ==
  IF i > Len(v.steps) THEN v
  ELSE StepLoop(validate_one_step(v, v.steps[i]), i + 1)

validate_steps(v) == StepLoop(v, 1)

\* variant: only neighbouring steps are compared
HasDuplicates_Adjacent(numbers) ==
  \E i \in 1..(Len(numbers) - 1) : numbers[i] = numbers[i + 1]

HasDuplicates(numbers) == Len(numbers) # Cardinality(Range(numbers))

\* variant: the numbers are compared in document order
NotSequential_Unsorted(numbers) == numbers # RangeList(Len(numbers))

NotSequential(numbers) == Sorted(numbers) # RangeList(Len(numbers))

\* variant: gaps are looked for in document order
HasGap_Unsorted(numbers) ==
  \E i \in 1..(Len(numbers) - 1) : numbers[i + 1] - numbers[i] > 1

HasGap(numbers) ==
  \E i \in 1..(Len(numbers) - 1) : Sorted(numbers)[i + 1] - Sorted(numbers)[i] > 1

validate_step_flow(v) ==
  IF v.steps = <<>> THEN v
  ELSE
    LET numbers == [i \in DOMAIN v.steps |-> v.steps[i].number]
        e1 == IF HasDuplicates(numbers)
              THEN Append(v.errors, DocMsg("DuplicateNumbers")) ELSE v.errors
        w1 == IF NotSequential(numbers)
              THEN Append(v.warnings,
                          Msg("NotSequential", -1, <<>>, Sorted(numbers),
                              RangeList(Len(v.steps))))
              ELSE v.warnings
        w2 == IF HasGap(numbers) THEN Append(w1, DocMsg("Gap")) ELSE w1
    IN [v EXCEPT !.errors = e1, !.warnings = w2]

\* variant: a single error is tolerated
IsValid_AtMostOne(errors) == Len(errors) <= 1

IsValid(errors) == Len(errors) = 0

\* the ValidationResult built at the end of validate()
ResultOf(v) ==
  [valid |-> IsValid(v.errors), errors |-> v.errors, warnings |-> v.warnings,
   info |-> Some([title |-> v.title, step_count |-> Len(v.steps),
                  has_meta |-> v.meta # {},
                  has_finalization |-> Truthy(v.finalization)])]

\* variant: the flow rules run before the per-step rules
validate_FlowFirst(v) ==
  validate_steps(validate_step_flow(validate_structure(parse_document(v))))

\* the validator object after validate() has run on it
validate(v) ==
  validate_step_flow(validate_steps(validate_structure(parse_document(v))))

\* ------------------------------------------------------- file and CLI glue
NotFoundResult ==
  [valid |-> FALSE, errors |-> <<DocMsg("FileNotFound")>>,
   warnings |-> <<>>, info |-> None]

NotMarkdownResult ==
  [valid |-> FALSE, errors |-> <<DocMsg("NotMarkdown")>>,
   warnings |-> <<>>, info |-> None]

IsMarkdown(path) == Lower(path.suffix) = <<".", "m", "d">>

\* validate_file: the result, and whether the text was read and validated
validate_file(filepath, fileExists, text) ==
  IF ~fileExists THEN [result |-> NotFoundResult, read |-> FALSE]
  ELSE IF ~IsMarkdown(filepath)
  THEN [result |-> NotMarkdownResult, read |-> FALSE]
  ELSE [result |-> ResultOf(validate(New(text))), read |-> TRUE]

\* variant: warnings fail the run too
ExitStatus_WarningsFail(r) == IF r.valid /\ r.warnings = <<>> THEN 0 ELSE 1

\* sys.exit(0 if result.valid else 1)
ExitStatus(r) == IF r.valid THEN 0 ELSE 1

\* ------------------------------------------------------------------ inputs
Rep(c, n) == [i \in 1..n |-> c]

TaskLong == Rep("x", 10)
TaskPadded == <<" ", " ">> \o Rep("x", 9) \o <<" ", " ">>

SaveAbsolute == <<BACKTICK, "/", "o", BACKTICK>>
SaveRelative == <<DQUOTE, "o", "/", "p", DQUOTE>>

CriterionBullet == <<"-", " ", "k">>
CriterionProse == <<"k">>

Untagged == [bracket |-> FALSE, tag |-> <<>>]
Tagged(t) == [bracket |-> TRUE, tag |-> t]

Tags ==
  { <<"G","u","i","d","e","d">>, <<"F","a","s","t">>, <<"a","-","b">> }

FlexHeadings == {Untagged} \cup {Tagged(t) : t \in Tags}

NumeralOf(n) == <<Digits[n + 1]>>

WellFormed ==
  [task |-> Some(TaskLong), flex |-> None, save |-> Some(SaveAbsolute),
   criteria |-> Some(<<CriterionBullet>>)]

AllMissing ==
  [task |-> None, flex |-> Some(Tagged(<<"F","a","s","t">>)), save |-> None,
   criteria |-> None]

\* bodies that differ from the well-formed body in one subsection, and the
\* body with every subsection missing or wrong
RuleBodies ==
  {WellFormed, AllMissing}
  \cup {[WellFormed EXCEPT !.task = t] : t \in {None, Some(TaskPadded)}}
  \cup {[WellFormed EXCEPT !.flex = Some(h)] : h \in FlexHeadings}
  \cup {[WellFormed EXCEPT !.save = x] : x \in {None, Some(SaveRelative)}}
  \cup {[WellFormed EXCEPT !.criteria = Some(<<CriterionProse>>)]}

FlowBodies == {WellFormed, [WellFormed EXCEPT !.save = None]}

Block(numeral, body) ==
  [numeral |-> numeral, task |-> body.task, flex |-> body.flex,
   save |-> body.save, criteria |-> body.criteria]

SeqsUpTo(S, n) == UNION {[1..k -> S] : k \in 0..n}

FullHead ==
  [h1 |-> Some([label |-> TRUE, text |-> <<"D", "e", "p">>]),
   meta |-> Some(<<[colon |-> TRUE, key |-> <<"V", "e", "r">>]>>),
   final |-> Some(<<"d", "o", "n", "e">>)]

Heads ==
  { FullHead,
    [h1 |-> None, meta |-> None, final |-> None],
    [h1 |-> Some([label |-> FALSE, text |-> <<"D", " ">>]),
     meta |-> Some(<<[colon |-> FALSE, key |-> <<>>]>>),
     final |-> Some(<<" ">>)] }

Doc(head, steps) ==
  [h1 |-> head.h1, meta |-> head.meta, final |-> head.final, steps |-> steps]

FlowNumerals == {NumeralOf(n) : n \in 0..MaxNum} \cup {<<"0", "1">>}

FlowDocs ==
  {Doc(FullHead, s) :
     s \in SeqsUpTo({Block(n, b) : n \in FlowNumerals, b \in FlowBodies},
                    MaxSteps)}

RuleDocs ==
  {Doc(h, s) :
     h \in Heads,
     s \in SeqsUpTo({Block(NumeralOf(n), b) : n \in 1..2, b \in RuleBodies},
                    MaxRuleSteps)}

Docs == FlowDocs \cup RuleDocs

\* the texts a caller of the class validates repeatedly
LibraryDocs == {d \in RuleDocs : Len(d.steps) <= MaxLibrarySteps}

Script == [stem |-> "validate", suffix |-> <<".", "p", "y">>]
JsonFlag == [stem |-> "--json", suffix |-> <<>>]

Argvs ==
  { <<Script>>,
    <<Script, [stem |-> "WF", suffix |-> <<".", "M", "D">>], JsonFlag>>,
    <<Script, [stem |-> "wf", suffix |-> <<".", "t", "x", "t">>]>>,
    <<Script, [stem |-> "wf", suffix |-> <<>>], JsonFlag>>,
    <<Script, JsonFlag>> }

\* ------------------------------------------------------------------- state
VARIABLES pc, sys_argv, exists, content, printed, result, exit_code,
          parses, self, returned

vars == <<pc, sys_argv, exists, content, printed, result, exit_code,
          parses, self, returned>>

Init ==
  /\ pc = "start"
  /\ sys_argv = <<>>
  /\ exists = FALSE
  /\ content = None
  /\ printed = "nothing"
  /\ result = None
  /\ exit_code = -1
  /\ parses = 0
  /\ self = None
  /\ returned = <<>>

\* one run of the command-line program
main(argv, fileExists, text) ==
  /\ pc = "start"
  /\ pc' = "exited"
  /\ sys_argv' = argv
  /\ UNCHANGED <<self, returned>>
  /\ IF Len(argv) < 2
     THEN /\ printed' = "usage"
          /\ exit_code' = 1
          /\ exists' = FALSE
          /\ UNCHANGED <<content, result, parses>>
     ELSE LET out == validate_file(argv[2], fileExists, text)
          IN /\ exists' = fileExists
             /\ content' = IF out.read THEN Some(text) ELSE None
             /\ parses' = IF out.read THEN parses + 1 ELSE parses
             /\ result' = Some(out.result)
             /\ printed' = IF JsonFlag \in Range(argv) THEN "json" ELSE "report"
             /\ exit_code' = ExitStatus(out.result)

\* a caller of the class builds a validator for a text ...
Construct(text) ==
  /\ pc = "start"
  /\ pc' = "library"
  /\ self' = Some(New(text))
  /\ content' = Some(text)
  /\ UNCHANGED <<sys_argv, exists, printed, result, exit_code, parses,
                 returned>>

\* ... and calls validate() on it.  The returned result holds the validator's
\* own errors and warnings lists, so results returned earlier by the same
\* validator show what a later call appends.
Validate ==
  /\ pc = "library"
  /\ Len(returned) < MaxRuns
  /\ LET v == validate(self[1])
     IN /\ self' = Some(v)
        /\ returned' =
             [i \in 1..(Len(returned) + 1) |->
                IF i <= Len(returned)
                THEN [returned[i] EXCEPT !.errors = v.errors,
                                         !.warnings = v.warnings]
                ELSE ResultOf(v)]
  /\ parses' = parses + 1
  /\ UNCHANGED <<pc, sys_argv, exists, content, printed, result, exit_code>>

\* the file contents that matter to a run: all of them when the file is
\* read, a single one when it is not
FileTexts(argv, fileExists) ==
  IF Len(argv) >= 2 /\ validate_file(argv[2], fileExists, Doc(FullHead, <<>>)).read
  THEN Docs
  ELSE {Doc(FullHead, <<>>)}

Next ==
  \/ /\ pc = "start"
     /\ \E argv \in Argvs, fileExists \in BOOLEAN :
          \E text \in FileTexts(argv, fileExists) :
            main(argv, fileExists, text)
  \/ /\ pc = "start"
     /\ \E text \in LibraryDocs : Construct(text)
  \/ Validate

Spec == Init /\ [][Next]_vars

\* ---------------------------------------------------- vocabulary of claims
\* the command-line run read the file and validated its text
FileValidated == pc = "exited" /\ content # None

\* the step blocks of the validated text and their declared numbers
Blocks == content[1].steps
Declared == [i \in DOMAIN Blocks |-> IntOf(Blocks[i].numeral)]
StepCount == Len(Blocks)

CountOf(msgs, kind) == Cardinality({i \in DOMAIN msgs : msgs[i].kind = kind})

CountFor(msgs, kind, n) ==
  Cardinality({i \in DOMAIN msgs : msgs[i].kind = kind /\ msgs[i].step = n})

\* some number of d occurs more than once
Repeats(d) == \E i, j \in DOMAIN d : i # j /\ d[i] = d[j]

\* the numbers of d are exactly 1..count, in some order
IsOneToCount(d) == {d[i] : i \in DOMAIN d} = 1..Len(d)

\* two neighbours among the numbers of d lie more than 1 apart
SomeGap(d) ==
  \E i, j \in DOMAIN d :
    /\ d[j] - d[i] > 1
    /\ ~\E k \in DOMAIN d : d[i] < d[k] /\ d[k] < d[j]

LacksSaveAs(i) == Blocks[i].save = None

ResultHolds(r) == r.valid <=> (r.errors = <<>>)

C2_PureFunctionOfText ==
  returned # <<>> =>
    LET fresh == ResultOf(validate(New(content[1])))
    IN \A i \in DOMAIN returned :
         /\ returned[i].errors = fresh.errors
         /\ returned[i].warnings = fresh.warnings

\* C3: a CLI run exits 0 exactly when there is a valid result and 1 otherwise;
\* a missing or non-.md file gives one error, no warnings and no parse; a
\* missing argument prints usage and validates nothing
C3_ExitStatus ==
  pc = "exited" =>
    /\ exit_code \in {0, 1}
    /\ exit_code = 0 <=> (result # None /\ result[1].valid)
    /\ Len(sys_argv) < 2 =>
         /\ exit_code = 1
         /\ printed = "usage"
         /\ result = None
         /\ parses = 0
    /\ (Len(sys_argv) >= 2 /\ (~exists \/ ~IsMarkdown(sys_argv[2]))) =>
         /\ exit_code = 1
         /\ Len(result[1].errors) = 1
         /\ result[1].warnings = <<>>
         /\ parses = 0
    /\ (FileValidated /\ result[1].errors # <<>>) => exit_code = 1

C3_Witness ==
  /\ pc = "exited"
  /\ Len(sys_argv) >= 2
  /\ exists
  /\ ~IsMarkdown(sys_argv[2])
  /\ exit_code = 1

\* C4: every step whose Flexibility tag, lower-cased as the parser stores it,
\* is outside {strict, guided, autonomous} gets exactly one "Invalid
\* flexibility level" error naming that value, and no other step gets one
C4_EveryInvalidTagReported ==
  FileValidated =>
    LET d == Declared
        errors == result[1].errors
        tagged(j) == Blocks[j].flex # None /\ Blocks[j].flex[1].bracket
        level(j) == Lower(Blocks[j].flex[1].tag)
        invalid(j) ==
          tagged(j) /\ level(j) \notin Range(VALID_FLEXIBILITY_LEVELS)
    IN \A i \in DOMAIN d :
         /\ CountFor(errors, "InvalidFlexibility", d[i])
              = Cardinality({j \in DOMAIN d : d[j] = d[i] /\ invalid(j)})
         /\ invalid(i) =>
              \E k \in DOMAIN errors :
                errors[k] =
                  Msg("InvalidFlexibility", d[i], level(i), <<>>, <<>>)

\* C5: the errors hold exactly one "Duplicate step numbers found" error when
\* some declared number occurs more than once, and none otherwise
C5_DuplicateErrorOnce ==
  FileValidated =>
    CountOf(result[1].errors, "DuplicateNumbers")
      = IF Repeats(Declared) THEN 1 ELSE 0

C5_Witness ==
  /\ FileValidated
  /\ StepCount = 3
  /\ Declared[1] = Declared[3]
  /\ Declared[1] # Declared[2]
  /\ CountOf(result[1].errors, "DuplicateNumbers") = 1

\* C6: the "not sequential" warning appears once when the sorted declared
\* numbers differ from 1..count and not at all otherwise, whatever the
\* document order; with distinct numbers it comes with no flow error, so
\* valid is what the document-level and per-step rules make it
C6_NotSequentialWarning ==
  FileValidated =>
    LET d == Declared
        errors == result[1].errors
        warned == CountOf(result[1].warnings, "NotSequential")
    IN /\ warned = IF Len(d) > 0 /\ ~IsOneToCount(d) THEN 1 ELSE 0
       /\ (warned = 1 /\ ~Repeats(d)) =>
            /\ \A i \in DOMAIN errors :
                 errors[i].kind
                   \in {"MissingTitle", "MissingTask", "InvalidFlexibility"}
            /\ result[1].valid
                 <=> /\ content[1].h1 # None
                     /\ \A i \in DOMAIN Blocks : Blocks[i].task # None
                     /\ CountOf(errors, "InvalidFlexibility") = 0

C6_Witness ==
  /\ FileValidated
  /\ Declared = <<3, 1, 2>>
  /\ CountOf(result[1].warnings, "NotSequential") = 0

\* C7: the "Gap in step numbering detected" warning appears once when the
\* sorted declared numbers have a gap, however many, never otherwise, and
\* never without the "not sequential" warning
C7_GapWarningOnce ==
  FileValidated =>
    LET gaps == CountOf(result[1].warnings, "Gap")
    IN /\ gaps = IF SomeGap(Declared) THEN 1 ELSE 0
       /\ gaps > 0 => CountOf(result[1].warnings, "NotSequential") = 1

C7_Witness ==
  /\ FileValidated
  /\ Declared = <<4, 0, 2>>
  /\ CountOf(result[1].warnings, "Gap") = 1

\* C8: the steps warned about a missing Save as are those without save_as
\* whose declared number is below the step count; the rule gives no error
C8_SaveAsWarning ==
  FileValidated =>
    LET d == Declared
        warnings == result[1].warnings
        due == {i \in DOMAIN d : LacksSaveAs(i) /\ d[i] < Len(d)}
    IN /\ CountOf(warnings, "NoSaveAs") = Cardinality(due)
       /\ \A i \in DOMAIN d :
            CountFor(warnings, "NoSaveAs", d[i])
              = Cardinality({j \in due : d[j] = d[i]})
       /\ CountOf(result[1].errors, "NoSaveAs") = 0

C8_Witness ==
  /\ FileValidated
  /\ Declared = <<2, 1>>
  /\ LacksSaveAs(1) /\ LacksSaveAs(2)
  /\ CountFor(result[1].warnings, "NoSaveAs", 1) = 1
  /\ CountFor(result[1].warnings, "NoSaveAs", 2) = 0

\* C9: every step but the last of the document that lacks save_as is warned
\* about it, so at most one step, the last, lacks save_as unwarned
C9_OnlyFinalStepMayOmit ==
  FileValidated =>
    LET d == Declared
        warnings == result[1].warnings
        inner == {i \in 1..(Len(d) - 1) : LacksSaveAs(i)}
    IN /\ \A i \in inner :
            CountFor(warnings, "NoSaveAs", d[i])
              >= Cardinality({j \in inner : d[j] = d[i]})
       /\ Cardinality({i \in DOMAIN d : LacksSaveAs(i)})
            - CountOf(warnings, "NoSaveAs") <= 1

\* the document model a fresh parse of the validated text gives
Parsed == parse_document(New(content[1]))

If(cond, msg) == IF cond THEN <<msg>> ELSE <<>>

RECURSIVE Flatten(_)
Flatten(ss) == IF ss = <<>> THEN <<>> ELSE Head(ss) \o Flatten(Tail(ss))

\* the messages each rule of the rule set owes, rule by rule
DocErrorsDue(p) ==
  If(p.title = None, DocMsg("MissingTitle"))
  \o If(Len(p.steps) = 0, DocMsg("NoSteps"))

DocWarningsDue(p) ==
  If(p.meta = {}, DocMsg("NoMeta"))
  \o If(~Truthy(p.finalization), DocMsg("NoFinalization"))

StepErrorsDue(st) ==
  If(~Truthy(st.task), StepMsg("MissingTask", st.number))
  \o If(st.flexibility_level \notin Range(VALID_FLEXIBILITY_LEVELS),
        Msg("InvalidFlexibility", st.number, st.flexibility_level, <<>>, <<>>))

StepWarningsDue(st, count) ==
  If(Truthy(st.task) /\ Len(st.task[1]) < 10, StepMsg("TaskBrief", st.number))
  \o If(~Truthy(st.save_as) /\ st.number < count,
        StepMsg("NoSaveAs", st.number))
  \o If(st.success_criteria = <<>>, StepMsg("NoCriteria", st.number))
  \o If(Truthy(st.save_as) /\ Head(st.save_as[1]) # "/",
        StepMsg("SaveAsNotAbsolute", st.number))

FlowErrorsDue(d) == If(Repeats(d), DocMsg("DuplicateNumbers"))

FlowWarningsDue(d) ==
  If(Len(d) > 0 /\ ~IsOneToCount(d),
     Msg("NotSequential", -1, <<>>, Sorted(d), RangeList(Len(d))))
  \o If(SomeGap(d), DocMsg("Gap"))

\* C10: every rule reports whatever the other rules found, and within errors
\* and within warnings the document-level messages come first, then each
\* step's messages in document order and rule order, then the flow messages
C10_AllRulesInOrder ==
  FileValidated =>
    LET p == Parsed
        d == [i \in DOMAIN p.steps |-> p.steps[i].number]
    IN /\ result[1].errors =
            DocErrorsDue(p)
            \o Flatten([i \in DOMAIN p.steps |-> StepErrorsDue(p.steps[i])])
            \o FlowErrorsDue(d)
       /\ result[1].warnings =
            DocWarningsDue(p)
            \o Flatten([i \in DOMAIN p.steps |->
                          StepWarningsDue(p.steps[i], Len(p.steps))])
            \o FlowWarningsDue(d)

C10_Witness ==
  /\ FileValidated
  /\ content[1].h1 = None
  /\ StepCount = 2
  /\ Blocks[1].task = None
  /\ Blocks[2].task # None
  /\ Blocks[2].save = Some(SaveRelative)
  /\ Repeats(Declared)
  /\ Len(result[1].errors) = 4
  /\ result[1].errors[4].kind = "DuplicateNumbers"

====
